---- MODULE Spec2Model ----
(***************************************************************************)
(* A model of the WebGPU 3D viewer extension.                              *)
(*                                                                         *)
(*   src/popup.js           opens one of the two pages in a new tab        *)
(*   src/unnamed/part_000   viewer.js: the rotating cube                   *)
(*   src/visualization.js   the bar chart of instanced cubes               *)
(*                                                                         *)
(* Every handler the host event loop dispatches (a resize listener, a      *)
(* timer firing, the continuation of an await, a frame callback) runs to   *)
(* completion before the next one starts, so each is one action.           *)
(*                                                                         *)
(* Numbers.  JavaScript numbers are modelled as extended rationals         *)
(* <<n, d>>: d > 0 is the fraction n/d in lowest terms, <<1, 0>> and       *)
(* <<-1, 0>> are +Infinity and -Infinity, <<0, 0>> is NaN.  Arithmetic is  *)
(* exact: the binary rounding of doubles and of Float32Array stores is not *)
(* modelled (0.05 + 0.9 is the rational 19/20 here).                       *)
(***************************************************************************)
EXTENDS Integers, Sequences, FiniteSets, TLC

----------------------------------------------------------------------------
(* Extended rational arithmetic: the JavaScript operators + - * / < and    *)
(* Math.max on numbers.                                                    *)

Abs(n) == IF n < 0 THEN -n ELSE n

Sgn(n) == IF n < 0 THEN -1 ELSE IF n > 0 THEN 1 ELSE 0

RECURSIVE GCD(_, _)
GCD(a, b) == IF b = 0 THEN a ELSE GCD(b, a % b)

Rat(n, d) ==
  IF d = 0 THEN <<Sgn(n), 0>>
  ELSE LET g == GCD(Abs(n), Abs(d))
       IN  <<(Sgn(d) * n) \div g, Abs(d) \div g>>

NaN == <<0, 0>>

IsNaN(x) == x = NaN

IsFinite(x) == x[2] # 0

Num(n) == <<n, 1>>

RNeg(x) == <<-x[1], x[2]>>

RAdd(x, y) ==
  IF IsNaN(x) \/ IsNaN(y) THEN NaN
  ELSE IF ~IsFinite(x) /\ ~IsFinite(y) THEN (IF x = y THEN x ELSE NaN)
  ELSE Rat(x[1] * y[2] + y[1] * x[2], x[2] * y[2])

RSub(x, y) == RAdd(x, RNeg(y))

RMul(x, y) == Rat(x[1] * y[1], x[2] * y[2])

RDiv(x, y) ==
  IF IsNaN(x) \/ IsNaN(y) THEN NaN
  ELSE IF ~IsFinite(x) /\ ~IsFinite(y) THEN NaN
  ELSE IF ~IsFinite(y) THEN Num(0)
  ELSE IF y[1] = 0 THEN <<Sgn(x[1]), 0>>
  ELSE Rat(x[1] * y[2] * Sgn(y[1]), x[2] * Abs(y[1]))

RLt(x, y) ==
  /\ ~IsNaN(x)
  /\ ~IsNaN(y)
  /\ IF ~IsFinite(x) /\ ~IsFinite(y) THEN x[1] < y[1]
     ELSE IF ~IsFinite(x) THEN x[1] < 0
     ELSE IF ~IsFinite(y) THEN y[1] > 0
     ELSE x[1] * y[2] < y[1] * x[2]

RLe(x, y) == RLt(x, y) \/ (~IsNaN(x) /\ x = y)

\* Math.max(...values, floor): NaN as soon as one argument is NaN.
RECURSIVE MathMax(_, _)
MathMax(values, floor) ==
  IF values = <<>> THEN floor
  ELSE LET m == MathMax(Tail(values), floor)
           v == Head(values)
       IN  IF IsNaN(v) \/ IsNaN(m) THEN NaN
           ELSE IF RLt(m, v) THEN v ELSE m

\* ToUint32 of a positive finite number, as the canvas.width setter applies it.
Trunc(x) == x[1] \div x[2]

----------------------------------------------------------------------------
(* Bounds of the model.                                                    *)

\* Depth textures created in one behaviour: the host stops resizing once
\* this many exist.
MaxTextures == 3

\* Invocations of fetchDataAndUpdate in one behaviour (the first at startup).
MaxRefreshes == 2

\* CSS sizes of the canvas element the host may lay out.
ClientSizes == {<<2, 1>>, <<2, 2>>}

\* window.devicePixelRatio: undefined (NaN here), or 3/2.
PixelRatios == {NaN, <<3, 2>>}

Pages == {"viewer", "visualization"}

----------------------------------------------------------------------------
(* Program constants.                                                      *)

barCount == 10

\* Floats per instance record: offset.xyz + scale.xyz.
InstanceStride == 6

\* Index of scale.y inside an instance record.
ScaleYOffset == 4

\* The canvas element's size before any script sets it.
DefaultCanvas == <<300, 150>>

NoTexture == [id |-> 0, width |-> 0, height |-> 0]

NoRefresh == [id |-> 0, outcome |-> "none",
              body |-> [kind |-> "none", rate |-> <<>>], values |-> <<>>,
              uploads |-> 0, settled |-> "pending"]

NoPass == [drawn |-> FALSE, depth |-> <<0, 0>>, target |-> <<0, 0>>,
           instances |-> 0, srcs |-> {}, steps |-> <<>>]

----------------------------------------------------------------------------
VARIABLES
  page,             \* which page popup.js opened
  phase,            \* position of initWebGPU / initVisualization
  messageShown,     \* #message has display: block
  canvasHidden,     \* the canvas has display: none
  errorLogged,      \* the .catch handler of the init promise has run
  client,           \* canvas.clientWidth, canvas.clientHeight
  devicePixelRatio, \* const devicePixelRatio = window.devicePixelRatio || 1
  canvas,           \* canvas.width, canvas.height
  configured,       \* size passed to the last context.configure
  depthTexture,     \* let depthTexture
  texturesCreated,  \* device.createTexture calls so far
  texturesDestroyed,\* depthTexture.destroy calls so far
  buffers,          \* the GPU buffers created by device.createBuffer
  timerSet,         \* setInterval(fetchDataAndUpdate, 15000) is active
  rafPending,       \* frame callbacks requested and not yet run
  lastPass,         \* the render pass the last frame recorded
  instanceData,     \* let instanceData (host side Float32Array)
  instanceBuffer,   \* contents of the GPU instance buffer
  dataSrc,          \* per bar: the refresh that last wrote instanceData
  bufferSrc,        \* per bar: the refresh whose value is in instanceBuffer
  refresh,          \* per invocation of fetchDataAndUpdate: its position
  started,          \* invocations of fetchDataAndUpdate so far
  lastRefresh,      \* what the last completed invocation saw and bound
  args,             \* arguments of the function called on its own
  ret,              \* what it returned
  called,           \* the call has been made
  thrown            \* the error it threw, "" when it returned

dom == <<messageShown, canvasHidden, errorLogged>>
surface == <<devicePixelRatio, canvas, configured>>
depth == <<depthTexture, texturesCreated, texturesDestroyed>>
instances == <<instanceData, instanceBuffer, dataSrc, bufferSrc>>
refreshes == <<refresh, started, lastRefresh, timerSet>>
harness == <<args, ret, called, thrown>>

vars == <<page, phase, dom, client, surface, depth, buffers, rafPending,
          lastPass, instances, refreshes, harness>>

----------------------------------------------------------------------------
(* Instance records (visualization.js).                                    *)

\* Position in instanceData of float f of bar i (both counted from 0).
At(i, f) == i * InstanceStride + f + 1

BarOf(k) == (k - 1) \div InstanceStride

FieldOf(k) == (k - 1) % InstanceStride

barSpacing == Rat(12, 100)

\* The loop that fills instanceData at creation.
InitialInstanceData ==
  [k \in 1..(barCount * InstanceStride) |->
     CASE FieldOf(k) = 0 ->
            RMul(RSub(Num(BarOf(k)), RDiv(Num(barCount - 1), Num(2))), barSpacing)
       [] FieldOf(k) \in {1, 2} -> Num(0)
       [] FieldOf(k) \in {3, 5} -> Rat(8, 100)
       [] OTHER -> Rat(5, 10)]

\* The loop stopping one bar early.
BarIndicesShort == 0..(barCount - 2)

\* The bars the loop of updateInstanceScales visits.
BarIndices == 0..(barCount - 1)

\* values[i] on a JavaScript array: undefined past its end, NaN once divided.
ValueAt(values, i) == IF i + 1 \in DOMAIN values THEN values[i + 1] ELSE NaN

\* The scale.y values of an instance array, bar by bar.
ScaleY(data) == [i \in 1..barCount |-> data[At(i - 1, ScaleYOffset)]]

----------------------------------------------------------------------------
(* Startup: initWebGPU (viewer.js) and initVisualization, which begin the  *)
(* same way.                                                               *)

Init ==
  /\ page \in Pages
  /\ phase = "start"
  /\ messageShown = FALSE
  /\ canvasHidden = FALSE
  /\ errorLogged = FALSE
  /\ client \in ClientSizes
  /\ devicePixelRatio = Num(1)
  /\ canvas = DefaultCanvas
  /\ configured = <<0, 0>>
  /\ depthTexture = NoTexture
  /\ texturesCreated = 0
  /\ texturesDestroyed = 0
  /\ buffers = {}
  /\ timerSet = FALSE
  /\ rafPending = 0
  /\ lastPass = NoPass
  /\ instanceData = <<>>
  /\ instanceBuffer = <<>>
  /\ dataSrc = <<>>
  /\ bufferSrc = <<>>
  /\ refresh = [r \in 1..MaxRefreshes |-> "idle"]
  /\ started = 0
  /\ lastRefresh = NoRefresh
  /\ args = <<>>
  /\ ret = <<>>
  /\ called = FALSE
  /\ thrown = ""

\* if (!navigator.gpu) { show #message; hide the canvas; return; }
InitNoGpu ==
  /\ phase = "start"
  /\ phase' = "unsupported"
  /\ messageShown' = TRUE
  /\ canvasHidden' = TRUE
  /\ UNCHANGED <<page, errorLogged, client, surface, depth, buffers, rafPending,
                 lastPass, instances, refreshes, harness>>

\* navigator.gpu exists: await navigator.gpu.requestAdapter()
InitRequestAdapter ==
  /\ phase = "start"
  /\ phase' = "awaitAdapter"
  /\ UNCHANGED <<page, dom, client, surface, depth, buffers, rafPending,
                 lastPass, instances, refreshes, harness>>

\* requestAdapter() resolved with an adapter: await adapter.requestDevice()
AdapterResolved ==
  /\ phase = "awaitAdapter"
  /\ phase' = "awaitDevice"
  /\ UNCHANGED <<page, dom, client, surface, depth, buffers, rafPending,
                 lastPass, instances, refreshes, harness>>

\* The init promise rejects and its .catch handler logs the error.
InitRejected ==
  /\ phase' = "rejected"
  /\ errorLogged' = TRUE
  /\ UNCHANGED <<page, messageShown, canvasHidden, client, surface, depth, buffers,
                 rafPending, lastPass, instances, refreshes, harness>>

\* requestAdapter() resolved with null: adapter.requestDevice() throws a
\* TypeError inside the async function.
AdapterNull ==
  /\ phase = "awaitAdapter"
  /\ InitRejected

\* requestDevice() rejected.
DeviceRejected ==
  /\ phase = "awaitDevice"
  /\ InitRejected

\* canvas.width and canvas.height as resizeCanvas sets them.
resizeCanvas(cl, dpr) ==
  <<Trunc(RMul(Num(cl[1]), dpr)), Trunc(RMul(Num(cl[2]), dpr))>>

\* window.devicePixelRatio || 1
PixelRatioOrOne(raw) == IF IsNaN(raw) \/ raw = Num(0) THEN Num(1) ELSE raw

\* device.createTexture({size: [canvas.width, canvas.height, 1], ...})
createTexture(size, n) == [id |-> n, width |-> size[1], height |-> size[2]]

\* A frame that asks for the next one twice.
requestAnimationFrameTwice(pending) == pending + 2

\* A frame that does not ask for the next one.
requestAnimationFrameDropped(pending) == pending

\* requestAnimationFrame(frame): one more frame callback is pending.
requestAnimationFrame(pending) == pending + 1

\* requestDevice() resolved: the rest of the init function runs to its end.
DeviceResolved ==
  /\ phase = "awaitDevice"
  /\ phase' = "running"
  /\ \E raw \in PixelRatios :
       /\ devicePixelRatio' = PixelRatioOrOne(raw)
       /\ canvas' = resizeCanvas(client, devicePixelRatio')
  /\ configured' = canvas'
  /\ depthTexture' = createTexture(canvas', 1)
  /\ texturesCreated' = 1
  /\ rafPending' = requestAnimationFrame(0)
  /\ IF page = "visualization"
     THEN /\ buffers' = {"vertex", "index", "instance", "uniform"}
          /\ instanceData' = InitialInstanceData
          /\ instanceBuffer' = InitialInstanceData
          /\ dataSrc' = [i \in 1..barCount |-> 0]
          /\ bufferSrc' = [i \in 1..barCount |-> 0]
          /\ timerSet' = TRUE
          /\ started' = 1
          /\ refresh' = [refresh EXCEPT ![1] = "fetch"]
          /\ UNCHANGED lastRefresh
     ELSE /\ buffers' = {"vertex", "index", "uniform"}
          /\ UNCHANGED <<instances, refreshes>>
  /\ UNCHANGED <<page, dom, client, texturesDestroyed, lastPass, harness>>

----------------------------------------------------------------------------
(* Host lifecycle signals.                                                 *)

\* The host lays the canvas out at a CSS size and fires 'resize'; the
\* listener resizeCanvas exists once init has registered it.
ResizeEvent ==
  /\ texturesCreated < MaxTextures
  /\ \E cl \in ClientSizes :
       /\ client' = cl
       /\ IF phase = "running"
          THEN /\ canvas' = resizeCanvas(cl, devicePixelRatio)
               /\ configured' = canvas'
          ELSE UNCHANGED <<canvas, configured>>
  /\ UNCHANGED <<page, phase, dom, devicePixelRatio, depth, buffers, rafPending,
                 lastPass, instances, refreshes, harness>>

----------------------------------------------------------------------------
(* The frame callbacks.                                                    *)

\* The frame re-creating its depth texture on every tick.
DepthStaleAlways == TRUE

\* The size check with the height comparison left out.
DepthStaleWidthOnly == depthTexture.width # canvas[1]

\* viewer.js: if (depthTexture.width !== canvas.width || depthTexture.height !== canvas.height)
DepthStale ==
  depthTexture.width # canvas[1] \/ depthTexture.height # canvas[2]

\* The calls of the cube's frame with requestAnimationFrame(frame) moved to
\* its top.
ViewerFrameStepsRequestFirst(stale) ==
  <<"requestAnimationFrame", "writeUniform">>
    \o (IF stale THEN <<"destroyDepth", "createDepth">> ELSE <<>>)
    \o <<"beginRenderPass", "drawIndexed", "end", "submit">>

\* The calls viewer.js frame(time) makes on the device, the encoder, the pass
\* and the window, in the order of its statements; stale is the outcome of
\* its size check.
ViewerFrameSteps(stale) ==
  <<"writeUniform">>
    \o (IF stale THEN <<"destroyDepth", "createDepth">> ELSE <<>>)
    \o <<"beginRenderPass", "drawIndexed", "end", "submit",
         "requestAnimationFrame">>

\* The calls visualization.js frame() makes, in the order of its statements.
VisualizationFrameSteps ==
  <<"writeUniform", "beginRenderPass", "drawIndexed", "end", "submit",
    "requestAnimationFrame">>

\* viewer.js frame(time)
ViewerFrame ==
  /\ page = "viewer"
  /\ phase = "running"
  /\ rafPending > 0
  /\ IF DepthStale
     THEN /\ texturesDestroyed' = texturesDestroyed + 1
          /\ texturesCreated' = texturesCreated + 1
          /\ depthTexture' = createTexture(canvas, texturesCreated')
     ELSE UNCHANGED depth
  /\ lastPass' = [drawn |-> TRUE,
                  depth |-> <<depthTexture'.width, depthTexture'.height>>,
                  target |-> canvas,
                  instances |-> 1,
                  srcs |-> {},
                  steps |-> ViewerFrameSteps(DepthStale)]
  /\ rafPending' = requestAnimationFrame(rafPending - 1)
  /\ UNCHANGED <<page, phase, dom, client, surface, buffers, instances, refreshes,
                 harness>>

\* visualization.js frame()
VisualizationFrame ==
  /\ page = "visualization"
  /\ phase = "running"
  /\ rafPending > 0
  /\ lastPass' = [drawn |-> TRUE,
                  depth |-> <<depthTexture.width, depthTexture.height>>,
                  target |-> canvas,
                  instances |-> barCount,
                  srcs |-> {bufferSrc[i] : i \in 1..barCount},
                  steps |-> VisualizationFrameSteps]
  /\ rafPending' = requestAnimationFrame(rafPending - 1)
  /\ UNCHANGED <<page, phase, dom, client, surface, depth, buffers, instances,
                 refreshes, harness>>

----------------------------------------------------------------------------
(* The data source (visualization.js, fetchDataAndUpdate).                 *)

\* One Math.random(): a number in [0, 1).
RandomDraws == {Num(0), Rat(1, 2)}

\* The barCount successive draws of one .map(() => ... Math.random() ...):
\* all zero, or the ramp 0, 1/barCount, ..., (barCount - 1)/barCount.
RandomStreams ==
  { [i \in 1..barCount |-> Num(0)],
    [i \in 1..barCount |-> Rat(i - 1, barCount)] }

\* How the awaited fetch(...) settles.
FetchOutcomes == {"networkError", "notOk", "ok"}

\* The rate field of the bodies that carry a textual one.
RateStrings ==
  { <<"6", "0", ",", "0", "0", "0", ".", "5">>,
    <<"0">>,
    <<"x">>,
    <<"-", "5">> }

\* What resp.json() yields: a body that is no JSON (the promise rejects), an
\* object without bpi.USD.rate, one whose rate is a number, one whose rate is
\* a string.
Bodies ==
  {[kind |-> k, rate |-> <<>>] : k \in {"notJson", "noRate", "numberRate"}}
    \cup {[kind |-> "stringRate", rate |-> s] : s \in RateStrings}

NoBody == [kind |-> "none", rate |-> <<>>]

DigitChars == <<"0", "1", "2", "3", "4", "5", "6", "7", "8", "9">>

IsDigit(c) == \E i \in DOMAIN DigitChars : DigitChars[i] = c

DigitVal(c) == (CHOOSE i \in DOMAIN DigitChars : DigitChars[i] = c) - 1

RECURSIVE DigitRun(_)
DigitRun(s) ==
  IF s = <<>> \/ ~IsDigit(Head(s)) THEN <<>>
  ELSE <<Head(s)>> \o DigitRun(Tail(s))

RECURSIVE DigitsValue(_)
DigitsValue(ds) ==
  IF ds = <<>> THEN 0
  ELSE DigitsValue(SubSeq(ds, 1, Len(ds) - 1)) * 10 + DigitVal(ds[Len(ds)])

RECURSIVE Pow10(_)
Pow10(n) == IF n = 0 THEN 1 ELSE 10 * Pow10(n - 1)

\* rate.replace(/,/g, '')
StripCommas(s) == SelectSeq(s, LAMBDA c : c # ",")

\* parseFloat on a string: the longest prefix that is a decimal literal
\* (sign, digits, fraction), NaN when there is none.
parseFloat(s) ==
  LET signed == s # <<>> /\ Head(s) \in {"-", "+"}
      body == IF signed THEN Tail(s) ELSE s
      ip == DigitRun(body)
      rest == SubSeq(body, Len(ip) + 1, Len(body))
      fp == IF rest # <<>> /\ Head(rest) = "." THEN DigitRun(Tail(rest)) ELSE <<>>
      mag == RAdd(Num(DigitsValue(ip)), Rat(DigitsValue(fp), Pow10(Len(fp))))
  IN  IF ip = <<>> /\ fp = <<>> THEN NaN
      ELSE IF Head(s) = "-" THEN RNeg(mag) ELSE mag

\* data.bpi?.USD?.rate?.replace(/,/g, '') throws a TypeError (rate has no
\* replace method), as a rejected resp.json() throws at its await.
BodyThrows(body) == body.kind \in {"notJson", "numberRate"}

\* const usdRate = parseFloat(...) || Math.random() * 50000
usdRate(body, draw) ==
  LET parsed == IF body.kind = "stringRate"
                THEN parseFloat(StripCommas(body.rate))
                ELSE NaN
  IN  IF IsNaN(parsed) \/ parsed = Num(0) THEN RMul(draw, Num(50000)) ELSE parsed

\* new Array(barCount).fill(0).map(() => usdRate * (0.8 + Math.random() * 0.4))
RateValues(rate, stream) ==
  [i \in 1..barCount |-> RMul(rate, RAdd(Rat(8, 10), RMul(stream[i], Rat(4, 10))))]

\* new Array(barCount).fill(0).map(() => Math.random() * 100)
randomValues(stream) == [i \in 1..barCount |-> RMul(stream[i], Num(100))]

\* The try block with its return statement left out: every invocation goes
\* on to the fallback.
ReachesFallbackNoReturn(outcome, body) == TRUE

\* Whether the invocation reaches the fallback after the try block: the
\* response was not ok, or the try block threw into catch (e) {}.
ReachesFallback(outcome, body) ==
  outcome # "ok" \/ BodyThrows(body)

\* Whether the try block reaches its updateInstanceScales(values).
ReachesUpdate(outcome, body) ==
  outcome = "ok" /\ ~BodyThrows(body)

\* The device.queue.writeBuffer(instanceBuffer, 0, instanceData) calls of one
\* invocation: one at the end of each updateInstanceScales it calls.
Uploads(outcome, body) ==
  (IF ReachesUpdate(outcome, body) THEN 1 ELSE 0)
    + (IF ReachesFallback(outcome, body) THEN 1 ELSE 0)

\* The array fetchDataAndUpdate hands to updateInstanceScales.
BoundValues(outcome, body, draw, stream) ==
  IF ReachesFallback(outcome, body) THEN randomValues(stream)
  ELSE RateValues(usdRate(body, draw), stream)

\* What one invocation can see and bind when its fetch does not yield an ok
\* response, and when resp.json() settles.
FailedRuns ==
  {[outcome |-> o, body |-> NoBody, values |-> BoundValues(o, NoBody, NaN, s)] :
     o \in FetchOutcomes \ {"ok"}, s \in RandomStreams}

JsonRuns ==
  {[outcome |-> "ok", body |-> b, values |-> BoundValues("ok", b, d, s)] :
     b \in Bodies, d \in RandomDraws, s \in RandomStreams}

\* The same loop writing instanceData[i * 6 + 3], the x scale.
updateInstanceScalesScaleX(data, values) ==
  LET maxValue == MathMax(values, Num(1))
      normalized(i) == RDiv(ValueAt(values, i), maxValue)
  IN  [k \in DOMAIN data |->
         IF FieldOf(k) = ScaleYOffset - 1 /\ BarOf(k) \in BarIndices
         THEN RAdd(Rat(5, 100), RMul(normalized(BarOf(k)), Rat(9, 10)))
         ELSE data[k]]

\* The same loop with Math.max(...values), the floor of 1 left out.
updateInstanceScalesNoFloor(data, values) ==
  LET maxValue == MathMax(Tail(values), Head(values))
      normalized(i) == RDiv(ValueAt(values, i), maxValue)
  IN  [k \in DOMAIN data |->
         IF FieldOf(k) = ScaleYOffset /\ BarOf(k) \in BarIndices
         THEN RAdd(Rat(5, 100), RMul(normalized(BarOf(k)), Rat(9, 10)))
         ELSE data[k]]

\* What the loop of updateInstanceScales(values) stores for bar i:
\* 0.05 + (values[i] / maxValue) * 0.9 with maxValue = Math.max(...values, 1).
BarScale(values, i) ==
  LET maxValue == MathMax(values, Num(1))
      normalized == RDiv(ValueAt(values, i), maxValue)
  IN  RAdd(Rat(5, 100), RMul(normalized, Rat(9, 10)))

\* BarScale of the arrays the invocations above bind, worked out once.
RunScales ==
  [values \in {run.values : run \in FailedRuns \cup JsonRuns} |->
     [i \in BarIndices |-> BarScale(values, i)]]

\* instanceData after the loop of updateInstanceScales(values).
updateInstanceScales(data, values) ==
  [k \in DOMAIN data |->
     IF FieldOf(k) = ScaleYOffset /\ BarOf(k) \in BarIndices
     THEN IF values \in DOMAIN RunScales
          THEN RunScales[values][BarOf(k)]
          ELSE BarScale(values, BarOf(k))
     ELSE data[k]]

\* updateInstanceScales(values) called by invocation id: the loop, then
\* device.queue.writeBuffer(instanceBuffer, 0, instanceData).
Bind(id, values) ==
  /\ instanceData' = updateInstanceScales(instanceData, values)
  /\ instanceBuffer' = instanceData'
  /\ dataSrc' = [i \in 1..barCount |-> IF (i - 1) \in BarIndices THEN id ELSE dataSrc[i]]
  /\ bufferSrc' = dataSrc'

\* The invocation returns: what the try block threw was caught, and nothing
\* after the try block throws, so its promise resolves.
Complete(id, outcome, body, values) ==
  /\ Bind(id, values)
  /\ refresh' = [refresh EXCEPT ![id] = "done"]
  /\ lastRefresh' = [id |-> id, outcome |-> outcome, body |-> body, values |-> values,
                     uploads |-> Uploads(outcome, body), settled |-> "resolved"]

\* The interval elapses: setInterval calls fetchDataAndUpdate, which runs up
\* to its await fetch(...).
TimerFire ==
  /\ timerSet
  /\ started < MaxRefreshes
  /\ started' = started + 1
  /\ refresh' = [refresh EXCEPT ![started'] = "fetch"]
  /\ UNCHANGED <<page, phase, dom, client, surface, depth, buffers, rafPending,
                 lastPass, instances, lastRefresh, timerSet, harness>>

\* await fetch(...) settles with a response that is ok: on to await resp.json().
FetchOk ==
  \E id \in 1..MaxRefreshes :
    /\ refresh[id] = "fetch"
    /\ refresh' = [refresh EXCEPT ![id] = "json"]
    /\ UNCHANGED <<page, phase, dom, client, surface, depth, buffers, rafPending,
                   lastPass, instances, started, lastRefresh, timerSet,
                   harness>>

\* await fetch(...) rejects, or the response is not ok: the fallback.
FetchFailed ==
  \E id \in 1..MaxRefreshes, run \in FailedRuns :
    /\ refresh[id] = "fetch"
    /\ Complete(id, run.outcome, run.body, run.values)
    /\ UNCHANGED <<page, phase, dom, client, surface, depth, buffers, rafPending,
                   lastPass, started, timerSet, harness>>

\* await resp.json() settles: the rest of fetchDataAndUpdate.
JsonSettled ==
  \E id \in 1..MaxRefreshes, run \in JsonRuns :
    /\ refresh[id] = "json"
    /\ Complete(id, run.outcome, run.body, run.values)
    /\ UNCHANGED <<page, phase, dom, client, surface, depth, buffers, rafPending,
                   lastPass, started, timerSet, harness>>

----------------------------------------------------------------------------
Next ==
  \/ InitNoGpu
  \/ InitRequestAdapter
  \/ AdapterResolved
  \/ AdapterNull
  \/ DeviceRejected
  \/ DeviceResolved
  \/ ResizeEvent
  \/ ViewerFrame
  \/ VisualizationFrame
  \/ TimerFire
  \/ FetchOk
  \/ FetchFailed
  \/ JsonSettled

Spec == Init /\ [][Next]_vars

\* The host runs a requested frame callback of a visible page at its next
\* display refresh; nothing is assumed of timers and of the network.
SpecFair == Spec /\ WF_vars(VisualizationFrame) /\ WF_vars(ViewerFrame)

----------------------------------------------------------------------------
(* updateInstanceScales called on its own.                                 *)

\* Magnitudes the caller may pass.
Magnitudes == {Num(0), Rat(1, 2), Num(3)}

\* Arrays of barCount - 1, barCount and barCount + 1 magnitudes, each array
\* built from two of the values above.
BindInputs ==
  UNION {[1..n -> {a, b}] :
           n \in (barCount - 1)..(barCount + 1), a \in Magnitudes, b \in Magnitudes}

\* The page is running with its instance data as created.
InitBind ==
  /\ page = "visualization"
  /\ phase = "running"
  /\ messageShown = FALSE
  /\ canvasHidden = FALSE
  /\ errorLogged = FALSE
  /\ client = <<2, 1>>
  /\ devicePixelRatio = Num(1)
  /\ canvas = <<2, 1>>
  /\ configured = <<2, 1>>
  /\ depthTexture = createTexture(<<2, 1>>, 1)
  /\ texturesCreated = 1
  /\ texturesDestroyed = 0
  /\ buffers = {"vertex", "index", "instance", "uniform"}
  /\ timerSet = FALSE
  /\ rafPending = 0
  /\ lastPass = NoPass
  /\ instanceData = InitialInstanceData
  /\ instanceBuffer = InitialInstanceData
  /\ dataSrc = [i \in 1..barCount |-> 0]
  /\ bufferSrc = [i \in 1..barCount |-> 0]
  /\ refresh = [r \in 1..MaxRefreshes |-> "idle"]
  /\ started = 0
  /\ lastRefresh = NoRefresh
  /\ args \in BindInputs
  /\ ret = <<>>
  /\ called = FALSE
  /\ thrown = ""

\* updateInstanceScales(args): it has no length check and no throw statement.
BindCall ==
  /\ ~called
  /\ called' = TRUE
  /\ Bind(1, args)
  /\ UNCHANGED <<page, phase, dom, client, surface, depth, buffers, rafPending,
                 lastPass, refreshes, args, ret, thrown>>

SpecBind == InitBind /\ [][BindCall]_vars

----------------------------------------------------------------------------
(* The matrix helpers.  A matrix is the sequence of its 16 floats, out[k]  *)
(* of the source being element k + 1.                                      *)

\* visualization.js perspective, given tan(fov / 2).
perspective(tanHalfFov, aspect, near, far) ==
  LET f == RDiv(Num(1), tanHalfFov)
      nf == RDiv(Num(1), RSub(near, far))
  IN  << RDiv(f, aspect), Num(0), Num(0), Num(0),
         Num(0), f, Num(0), Num(0),
         Num(0), Num(0), RMul(RAdd(far, near), nf), Num(-1),
         Num(0), Num(0), RMul(RMul(RMul(Num(2), far), near), nf), Num(0) >>

\* viewer.js perspective, given tan(fov / 2).
viewerPerspective(tanHalfFov, aspect, near, far) ==
  LET f == RDiv(Num(1), tanHalfFov)
      nf == RDiv(Num(1), RSub(near, far))
  IN  << RDiv(f, aspect), Num(0), Num(0), Num(0),
         Num(0), f, Num(0), Num(0),
         Num(0), Num(0), RMul(RAdd(far, near), nf), Num(-1),
         Num(0), Num(0), RMul(RMul(RMul(Num(2), far), near), nf), Num(0) >>

RECURSIVE RSum(_)
RSum(xs) == IF xs = <<>> THEN Num(0) ELSE RAdd(Head(xs), RSum(Tail(xs)))

\* The vertex shader's uniforms.mvpMatrix * vec4(position, 1.0): a
\* column-major matrix applied to a column vector.
ClipPosition(m, v) ==
  [r \in 1..4 |-> RSum([c \in 1..4 |-> RMul(m[(c - 1) * 4 + r], v[c])])]

\* The point on the view axis (the camera looks down -z) at distance d.
AxisPoint(d) == <<Num(0), Num(0), RNeg(d), Num(1)>>

\* Depth of a clip-space position: z divided by w.
DepthOf(clip) == RDiv(clip[3], clip[4])

\* near and far are tenths, 0 < near < far <= MaxTenths / 10.
MaxTenths == 4

\* Arguments of perspective: the pair the frames pass (0.1, 100) and the
\* small pairs, the aspects of the canvases above, two fields of view.
PerspectiveInputs ==
  {[tanHalfFov |-> t, aspect |-> a, near |-> nfp[1], far |-> nfp[2]] :
     t \in {Num(1), Rat(1, 2)},
     a \in {Num(1), Rat(3, 2), Num(2), Num(3)},
     nfp \in {<<Rat(1, 10), Num(100)>>}
               \cup {<<Rat(n, 10), Rat(g, 10)>> : n \in 1..MaxTenths, g \in 1..MaxTenths} }

InitPerspective ==
  /\ page \in Pages
  /\ phase = "running"
  /\ messageShown = FALSE
  /\ canvasHidden = FALSE
  /\ errorLogged = FALSE
  /\ client = <<2, 1>>
  /\ devicePixelRatio = Num(1)
  /\ canvas = <<2, 1>>
  /\ configured = <<2, 1>>
  /\ depthTexture = createTexture(<<2, 1>>, 1)
  /\ texturesCreated = 1
  /\ texturesDestroyed = 0
  /\ buffers = {}
  /\ timerSet = FALSE
  /\ rafPending = 0
  /\ lastPass = NoPass
  /\ instanceData = <<>>
  /\ instanceBuffer = <<>>
  /\ dataSrc = <<>>
  /\ bufferSrc = <<>>
  /\ refresh = [r \in 1..MaxRefreshes |-> "idle"]
  /\ started = 0
  /\ lastRefresh = NoRefresh
  /\ args \in {i \in PerspectiveInputs : RLt(i.near, i.far)}
  /\ ret = <<>>
  /\ called = FALSE
  /\ thrown = ""

\* perspective(fov, aspect, near, far) of the page's module.
PerspectiveCall ==
  /\ ~called
  /\ called' = TRUE
  /\ ret' = IF page = "visualization"
            THEN perspective(args.tanHalfFov, args.aspect, args.near, args.far)
            ELSE viewerPerspective(args.tanHalfFov, args.aspect, args.near, args.far)
  /\ UNCHANGED <<page, phase, dom, client, surface, depth, buffers, rafPending,
                 lastPass, instances, refreshes, args, thrown>>

SpecPerspective == InitPerspective /\ [][PerspectiveCall]_vars

\* The sums of multiply with b read across instead of down:
\* out[4i + j] = sum over k of a[4i + k] * b[4j + k].
multiplyAcross(a, b) ==
  [n \in 1..16 |->
     LET i == (n - 1) \div 4
         j == (n - 1) % 4
     IN  RSum([k \in 1..4 |-> RMul(a[4 * i + k], b[4 * j + k])])]

\* visualization.js multiply: with aRC = a[4R + C] and bRC = b[4R + C],
\* out[4i + j] = ai0 * b0j + ai1 * b1j + ai2 * b2j + ai3 * b3j.
multiply(a, b) ==
  [n \in 1..16 |->
     LET i == (n - 1) \div 4
         j == (n - 1) % 4
     IN  RSum([k \in 1..4 |-> RMul(a[4 * i + k], b[4 * (k - 1) + j + 1])])]

\* viewer.js multiply: for each i, with aik = a[i + 4k],
\* out[i + 4c] = ai0 * b[4c] + ai1 * b[4c + 1] + ai2 * b[4c + 2] + ai3 * b[4c + 3].
viewerMultiply(a, b) ==
  [n \in 1..16 |->
     LET i == (n - 1) % 4
         c == (n - 1) \div 4
     IN  RSum([k \in 1..4 |-> RMul(a[i + 4 * (k - 1) + 1], b[4 * c + k])])]

\* The matrix a frame of the bar chart uploads: multiply(proj, view).
mvp(proj, view) == multiply(proj, view)

\* The matrix a frame of the cube uploads:
\* multiply(multiply(projection, view), model).
viewerMvp(projection, view, model) ==
  viewerMultiply(viewerMultiply(projection, view), model)

Matrix(ints) == [n \in 1..16 |-> Num(ints[n])]

Identity == Matrix(<<1, 0, 0, 0,  0, 1, 0, 0,  0, 0, 1, 0,  0, 0, 0, 1>>)

\* Integer-valued matrices, column by column: the identity, a translation,
\* rotateY's matrix at a quarter turn, a scaling, a projection (last row
\* 0 0 -1 0) and a matrix with no zero row or column.
TestMatrices ==
  { Identity,
    Matrix(<<1, 0, 0, 0,  0, 1, 0, 0,  0, 0, 1, 0,  1, 2, 3, 1>>),
    Matrix(<<0, 0, -1, 0,  0, 1, 0, 0,  1, 0, 0, 0,  0, 0, 0, 1>>),
    Matrix(<<2, 0, 0, 0,  0, 3, 0, 0,  0, 0, 1, 0,  0, 0, 0, 1>>),
    Matrix(<<1, 0, 0, 0,  0, 2, 0, 0,  0, 0, -1, -1,  0, 0, -2, 0>>),
    Matrix(<<1, 2, 0, -1,  0, 1, 3, 2,  2, -1, 1, 0,  1, 0, -2, 1>>) }

\* Positions vec4(position, 1.0).
TestPositions ==
  { <<Num(1), Num(2), Num(3), Num(1)>>, <<Num(-1), Num(1), Num(0), Num(1)>> }

\* A page at rest: everything but the page and the call under test.
AtRest ==
  /\ phase = "running"
  /\ messageShown = FALSE
  /\ canvasHidden = FALSE
  /\ errorLogged = FALSE
  /\ client = <<2, 1>>
  /\ devicePixelRatio = Num(1)
  /\ canvas = <<2, 1>>
  /\ configured = <<2, 1>>
  /\ depthTexture = createTexture(<<2, 1>>, 1)
  /\ texturesCreated = 1
  /\ texturesDestroyed = 0
  /\ buffers = {}
  /\ timerSet = FALSE
  /\ rafPending = 0
  /\ lastPass = NoPass
  /\ instanceData = <<>>
  /\ instanceBuffer = <<>>
  /\ dataSrc = <<>>
  /\ bufferSrc = <<>>
  /\ refresh = [r \in 1..MaxRefreshes |-> "idle"]
  /\ started = 0
  /\ lastRefresh = NoRefresh
  /\ ret = <<>>
  /\ called = FALSE
  /\ thrown = ""

InitMultiply ==
  /\ page \in Pages
  /\ AtRest
  /\ args \in [a : TestMatrices, b : TestMatrices, c : TestMatrices,
               v : TestPositions]

\* The page's module computes multiply(a, b), both groupings of a, b, c and
\* the matrix its frame would upload for projection a, view b and model c.
MultiplyCall ==
  /\ ~called
  /\ called' = TRUE
  /\ ret' = IF page = "visualization"
            THEN [product |-> multiply(args.a, args.b),
                  left |-> multiply(multiply(args.a, args.b), args.c),
                  right |-> multiply(args.a, multiply(args.b, args.c)),
                  uploaded |-> mvp(args.a, args.b)]
            ELSE [product |-> viewerMultiply(args.a, args.b),
                  left |-> viewerMultiply(viewerMultiply(args.a, args.b), args.c),
                  right |-> viewerMultiply(args.a, viewerMultiply(args.b, args.c)),
                  uploaded |-> viewerMvp(args.a, args.b, args.c)]
  /\ UNCHANGED <<page, phase, dom, client, surface, depth, buffers, rafPending,
                 lastPass, instances, refreshes, args, thrown>>

SpecMultiply == InitMultiply /\ [][MultiplyCall]_vars

\* Math.sqrt on the squares of rationals (and on 0, NaN and Infinity): the
\* arguments of lookAt below are chosen so that no other value arises.
IsSquare(n) == \E r \in 0..n : r * r = n

IntSqrt(n) == CHOOSE r \in 0..n : r * r = n

RSqrt(x) ==
  IF IsNaN(x) \/ RLt(x, Num(0)) THEN NaN
  ELSE IF ~IsFinite(x) THEN x
  ELSE <<IntSqrt(x[1]), IntSqrt(x[2])>>

\* The sum of squares Math.hypot(x, y, z) takes the root of.
SquaredLength(v) ==
  RAdd(RAdd(RMul(v[1], v[1]), RMul(v[2], v[2])), RMul(v[3], v[3]))

\* Math.hypot(x, y, z)
hypot(v) == RSqrt(SquaredLength(v))

\* v[0] /= len; v[1] /= len; v[2] /= len
Over(v, len) == <<RDiv(v[1], len), RDiv(v[2], len), RDiv(v[3], len)>>

\* The three differences of products lookAt forms for cross(a, b).
Cross(a, b) ==
  << RSub(RMul(a[2], b[3]), RMul(a[3], b[2])),
     RSub(RMul(a[3], b[1]), RMul(a[1], b[3])),
     RSub(RMul(a[1], b[2]), RMul(a[2], b[1])) >>

\* xx * eye[0] + xy * eye[1] + xz * eye[2]
Dot(a, b) == RAdd(RAdd(RMul(a[1], b[1]), RMul(a[2], b[2])), RMul(a[3], b[3]))

\* The axes of lookAt (the same statements in both modules): z from center
\* to eye, x = cross(up, z), y = cross(z, x), each divided by its length.
lookAtAxes(eye, center, up) ==
  LET z0 == <<RSub(eye[1], center[1]), RSub(eye[2], center[2]),
              RSub(eye[3], center[3])>>
      z == Over(z0, hypot(z0))
      x0 == Cross(up, z)
      x == Over(x0, hypot(x0))
      y0 == Cross(z, x)
      y == Over(y0, hypot(y0))
  IN  [x |-> x, y |-> y, z |-> z]

\* lookAt with out[12..14] computed from center instead of eye.
lookAtFromCenter(eye, center, up) ==
  LET ax == lookAtAxes(eye, center, up)
  IN  << ax.x[1], ax.y[1], ax.z[1], Num(0),
         ax.x[2], ax.y[2], ax.z[2], Num(0),
         ax.x[3], ax.y[3], ax.z[3], Num(0),
         RNeg(Dot(ax.x, center)), RNeg(Dot(ax.y, center)),
         RNeg(Dot(ax.z, center)), Num(1) >>

\* visualization.js lookAt
lookAt(eye, center, up) ==
  LET ax == lookAtAxes(eye, center, up)
  IN  << ax.x[1], ax.y[1], ax.z[1], Num(0),
         ax.x[2], ax.y[2], ax.z[2], Num(0),
         ax.x[3], ax.y[3], ax.z[3], Num(0),
         RNeg(Dot(ax.x, eye)), RNeg(Dot(ax.y, eye)), RNeg(Dot(ax.z, eye)),
         Num(1) >>

\* viewer.js lookAt
viewerLookAt(eye, center, up) ==
  LET ax == lookAtAxes(eye, center, up)
  IN  << ax.x[1], ax.y[1], ax.z[1], Num(0),
         ax.x[2], ax.y[2], ax.z[2], Num(0),
         ax.x[3], ax.y[3], ax.z[3], Num(0),
         RNeg(Dot(ax.x, eye)), RNeg(Dot(ax.y, eye)), RNeg(Dot(ax.z, eye)),
         Num(1) >>

Vec3(x, y, z) == <<Num(x), Num(y), Num(z)>>

\* Offsets from center to eye, points looked at, and up vectors.
EyeOffsets ==
  { Vec3(3, 4, 0), Vec3(0, 3, 4), Vec3(3, 0, 4), Vec3(0, 0, 5), Vec3(3, 12, 4),
    Vec3(0, 0, -2), Vec3(4, 0, -3), Vec3(-6, 8, 0) }

Centers == { Vec3(0, 0, 0), Vec3(1, 2, 3), Vec3(-3, 0, 4) }

Ups == { Vec3(0, 1, 0), Vec3(0, 0, 1), Vec3(0, 2, 0), Vec3(1, 0, 0) }

\* up is not collinear with the view direction.
NotCollinear(offset, up) == Cross(up, offset) # Vec3(0, 0, 0)

\* Both lengths lookAt divides by are rational (the third is then 1).
ExactLengths(offset, up) ==
  LET sq == SquaredLength(offset)
  IN  /\ IsSquare(sq[1])
      /\ IsSquare(sq[2])
      /\ LET xsq == SquaredLength(Cross(up, Over(offset, RSqrt(sq))))
         IN  IsSquare(xsq[1]) /\ IsSquare(xsq[2])

LookAtInputs ==
  {[eye |-> <<RAdd(c[1], o[1]), RAdd(c[2], o[2]), RAdd(c[3], o[3])>>,
    center |-> c, up |-> u] :
     <<o, c, u>> \in {t \in EyeOffsets \X Centers \X Ups :
                        NotCollinear(t[1], t[3]) /\ ExactLengths(t[1], t[3])}}

InitLookAt ==
  /\ page \in Pages
  /\ AtRest
  /\ args \in LookAtInputs

\* lookAt(eye, center, up) of the page's module.
LookAtCall ==
  /\ ~called
  /\ called' = TRUE
  /\ ret' = IF page = "visualization"
            THEN lookAt(args.eye, args.center, args.up)
            ELSE viewerLookAt(args.eye, args.center, args.up)
  /\ UNCHANGED <<page, phase, dom, client, surface, depth, buffers, rafPending,
                 lastPass, instances, refreshes, args, thrown>>

SpecLookAt == InitLookAt /\ [][LookAtCall]_vars

----------------------------------------------------------------------------
(* Claims about the running pages, checked under Spec.                     *)

\* C1. Bar chart: at every frame tick the depth attachment bound to the
\* render pass has the width and height of the canvas.  (visualization.js
\* creates its depth texture once and frame() never looks at its size.)
C1_BarChartDepthMatchesCanvas ==
  (page = "visualization" /\ lastPass.drawn) => lastPass.depth = lastPass.target

\* C2. Rotating cube: when a frame records its render pass the depth
\* attachment has the canvas's current pixel size, a stale one having been
\* destroyed and re-provisioned in that tick, so that one texture is alive.
C2_CubeDepthMatchesCanvas ==
  (page = "viewer" /\ lastPass.drawn) =>
    /\ lastPass.depth = lastPass.target
    /\ lastPass.depth = <<depthTexture.width, depthTexture.height>>
    /\ texturesDestroyed = texturesCreated - 1

\* A cube frame has run after a resize that made the depth texture stale.
C2_Witness ==
  /\ page = "viewer"
  /\ lastPass.drawn
  /\ texturesDestroyed >= 1
  /\ lastPass.depth = canvas

\* The invocations of fetchDataAndUpdate that have started and not returned.
InFlight == {id \in 1..MaxRefreshes : refresh[id] \in {"fetch", "json"}}

\* C3. At most one invocation of fetchDataAndUpdate is in flight at any time.
C3_AtMostOneRefreshInFlight == Cardinality(InFlight) <= 1

\* C4. Every frame of the bar chart reads an instance buffer whose scale.y
\* values were all written by one refresh (or are all the initial value).
C4_FrameSeesOneRefresh ==
  (page = "visualization" /\ lastPass.drawn) => Cardinality(lastPass.srcs) = 1

\* A frame has drawn the data of a refresh while two refreshes had returned
\* and which was not the one started last.
C4_Witness ==
  /\ page = "visualization"
  /\ lastPass.drawn
  /\ \E id \in 1..MaxRefreshes : lastPass.srcs = {id} /\ id < started
  /\ Cardinality({id \in 1..MaxRefreshes : refresh[id] = "done"}) >= 2

\* A completed refresh failed: the fetch rejected, the status was not ok, or
\* the body departs from the expected shape (no JSON, no rate field, a rate
\* that is no string, or a string parseFloat cannot read).
RefreshFailed(r) ==
  \/ r.outcome \in {"networkError", "notOk"}
  \/ r.body.kind \in {"notJson", "noRate", "numberRate"}
  \/ r.body.kind = "stringRate" /\ IsNaN(parseFloat(StripCommas(r.body.rate)))

\* C5. Whenever a refresh fails, the sequence bound to the bars is the
\* whole-sequence fallback: barCount values, each in [0, 100).
C5_FailureBindsFallback ==
  (lastRefresh.id # 0 /\ RefreshFailed(lastRefresh)) =>
    /\ Len(lastRefresh.values) = barCount
    /\ \A i \in 1..barCount :
         /\ RLe(Num(0), lastRefresh.values[i])
         /\ RLt(lastRefresh.values[i], Num(100))

\* C7. When no GPU is available at startup, initialization ends with the
\* fallback message shown, no failure left unhandled, and nothing created,
\* scheduled or drawn from then on.
C7_NoGpuShowsFallback ==
  phase \in {"unsupported", "rejected"} =>
    /\ messageShown
    /\ (phase = "rejected" => errorLogged)
    /\ buffers = {}
    /\ ~timerSet
    /\ rafPending = 0
    /\ ~lastPass.drawn

\* C9 (second half). After any sequence of refreshes every bar in the
\* resident buffer has scale.y >= 0.05.
C9_ResidentScaleAtLeastFloor ==
  instanceBuffer # <<>> =>
    \A i \in 1..barCount : RLe(Rat(5, 100), ScaleY(instanceBuffer)[i])

----------------------------------------------------------------------------
(* Claims about updateInstanceScales, checked under SpecBind.              *)

\* C6. Called with an array whose length differs from barCount, bind fails
\* with ShapeMismatch and leaves instanceData and the instance buffer as
\* they were.
C6_ShapeMismatchRejected ==
  (called /\ Len(args) # barCount) =>
    /\ thrown = "ShapeMismatch"
    /\ instanceData = InitialInstanceData
    /\ instanceBuffer = InitialInstanceData

\* The largest element of a non-empty array.
Maximum(values) == MathMax(Tail(values), Head(values))

InUnitBand(y) == RLe(Rat(5, 100), y) /\ RLe(y, Rat(95, 100))

\* C8 as stated. After bind of barCount non-negative magnitudes the bar
\* holding the maximum has scale.y = 0.95 and every bar has
\* scale.y = 0.05 + 0.9 * magnitude / maximum, within [0.05, 0.95].
C8_MaximumBarAtTop ==
  (called /\ Len(args) = barCount) =>
    \A i \in 1..barCount :
      LET y == ScaleY(instanceData)[i]
      IN  /\ args[i] = Maximum(args) => y = Rat(95, 100)
          /\ y = RAdd(Rat(5, 100), RMul(Rat(9, 10), RDiv(args[i], Maximum(args))))
          /\ InUnitBand(y)

\* C8 as amended. The divisor is the larger of the maximum and 1: every bar
\* has scale.y = 0.05 + 0.9 * magnitude / max(maximum, 1) within
\* [0.05, 0.95], in host data and GPU buffer alike, and the bar holding the
\* maximum has scale.y = 0.95 when that maximum is at least 1.
C8_MaximumBarAtTopWhenAtLeastOne ==
  (called /\ Len(args) = barCount) =>
    LET divisor == IF RLt(Maximum(args), Num(1)) THEN Num(1) ELSE Maximum(args)
    IN  \A i \in 1..barCount :
          LET y == ScaleY(instanceData)[i]
          IN  /\ y = RAdd(Rat(5, 100), RMul(Rat(9, 10), RDiv(args[i], divisor)))
              /\ InUnitBand(y)
              /\ ScaleY(instanceBuffer)[i] = y
              /\ (args[i] = Maximum(args) /\ RLe(Num(1), Maximum(args)))
                   => y = Rat(95, 100)

\* bind has run on barCount magnitudes with maximum 3 and a smaller
\* non-zero one.
C8_Witness ==
  /\ called
  /\ Len(args) = barCount
  /\ Maximum(args) = Num(3)
  /\ \E i, j \in 1..barCount :
       /\ args[i] = Rat(1, 2)
       /\ ScaleY(instanceBuffer)[i] = Rat(1, 5)
       /\ ScaleY(instanceBuffer)[j] = Rat(95, 100)

----------------------------------------------------------------------------
(* Claims about the matrix helpers.                                        *)

\* C10. For 0 < near < far and aspect > 0 the matrix of perspective maps
\* the view-axis point at distance far to depth 1 and the one at distance
\* near to depth 0.
C10_DepthRangeZeroToOne ==
  called =>
    /\ DepthOf(ClipPosition(ret, AxisPoint(args.far))) = Num(1)
    /\ DepthOf(ClipPosition(ret, AxisPoint(args.near))) = Num(0)

\* The model matrix of the page's frame: the cube's frame multiplies one in,
\* the bar chart's frame has none.
ModelOf(a) == IF page = "viewer" THEN a.c ELSE Identity

\* C11. multiply(a, b) applied to a position equals a applied to (b applied
\* to it), and the matrix a frame uploads applies model, then view, then
\* projection.  (visualization.js multiply reads its arguments row by row,
\* so on column-major matrices it returns the product applying a first.)
C11_MultiplyAppliesRightFirst ==
  called =>
    /\ ClipPosition(ret.product, args.v)
         = ClipPosition(args.a, ClipPosition(args.b, args.v))
    /\ ClipPosition(ret.uploaded, args.v)
         = ClipPosition(args.a,
             ClipPosition(args.b, ClipPosition(ModelOf(args), args.v)))

\* C15. multiply is associative in both modules: multiply(multiply(a, b), c)
\* equals multiply(a, multiply(b, c)) for the integer-valued matrices a, b, c
\* of TestMatrices.
C15_MultiplyAssociative ==
  called => ret.left = ret.right

\* The bar chart's multiply has been called on three different matrices,
\* none the identity, the first two of which do not commute.
C15_Witness ==
  /\ called
  /\ page = "visualization"
  /\ Cardinality({args.a, args.b, args.c, Identity}) = 4
  /\ multiply(args.a, args.b) # multiply(args.b, args.a)
  /\ ret.left # ret.product

\* C19. The two multiply helpers are the same function: on every a and b the
\* bar chart's multiply returns the matrix the cube's multiply returns.
\* (The bar chart's returns what the cube's returns for (b, a).)
C19_SameMultiply ==
  called =>
    /\ multiply(args.a, args.b) = viewerMultiply(args.a, args.b)
    /\ ret.product = viewerMultiply(args.a, args.b)

----------------------------------------------------------------------------
(* Claims about fetchDataAndUpdate, checked under Spec.                    *)

\* C12. Every invocation of fetchDataAndUpdate that completes, whatever its
\* fetch did, has made exactly one writeBuffer of the whole instance array,
\* and its promise resolves: no error reaches the timer or the startup code.
C12_OneUploadPerRefresh ==
  lastRefresh.id # 0 =>
    /\ lastRefresh.uploads = 1
    /\ lastRefresh.settled = "resolved"
    /\ refresh[lastRefresh.id] = "done"
    /\ \A i \in 1..barCount : bufferSrc[i] = lastRefresh.id
    /\ instanceBuffer = instanceData

\* Two invocations have completed, the last one after resp.json() rejected,
\* and its single upload is what the buffer holds.
C12_Witness ==
  /\ Cardinality({id \in 1..MaxRefreshes : refresh[id] = "done"}) >= 2
  /\ lastRefresh.outcome = "ok"
  /\ lastRefresh.body.kind = "notJson"
  /\ lastRefresh.uploads = 1

----------------------------------------------------------------------------
(* Claims about lookAt, checked under SpecLookAt.                          *)

\* C13. For eye # center and up not collinear with the view direction, the
\* matrix of lookAt maps the point eye to the origin: each rotation row
\* applied to eye plus the translation entry of that row is 0.
C13_LookAtMapsEyeToOrigin ==
  called =>
    /\ ClipPosition(ret, <<args.eye[1], args.eye[2], args.eye[3], Num(1)>>)
         = <<Num(0), Num(0), Num(0), Num(1)>>
    /\ \A r \in 1..3 :
         RAdd(Dot(<<ret[r], ret[r + 4], ret[r + 8]>>, args.eye), ret[r + 12])
           = Num(0)

\* lookAt has returned for an eye off the axes, a center that is not the
\* origin and an up vector that is not the y axis.
C13_Witness ==
  /\ called
  /\ args.center # Vec3(0, 0, 0)
  /\ args.up # Vec3(0, 1, 0)
  /\ Cardinality({k \in 1..3 : args.eye[k] # Num(0)}) >= 2
  /\ \A k \in 1..16 : IsFinite(ret[k])
  /\ ret[13] # Num(0)

----------------------------------------------------------------------------
(* Claims about resizing, checked under Spec.                              *)

\* C14. A resize event that leaves the canvas pixel size as it was changes
\* nothing of the render target (canvas size, configured size, depth
\* texture identity and size, textures created and destroyed), so the frame
\* after it finds what it would have found without the event; and a frame
\* that finds the depth texture at canvas size neither destroys nor creates
\* one.
C14_SameSizeResizeIdempotent ==
  [][ /\ (ResizeEvent /\ phase = "running" /\ canvas' = canvas)
           => UNCHANGED <<surface, depth>>
      /\ ((ViewerFrame \/ VisualizationFrame)
            /\ <<depthTexture.width, depthTexture.height>> = canvas)
           => UNCHANGED <<surface, depth>> ]_vars

\* The cube has drawn a frame at the size of the last resize event, on a
\* depth texture re-created after an earlier resize: the state a resize event
\* to the same size, followed by a frame, starts from and returns to.
C14_Witness ==
  /\ page = "viewer"
  /\ phase = "running"
  /\ lastPass.drawn
  /\ canvas = resizeCanvas(client, devicePixelRatio)
  /\ lastPass.target = canvas
  /\ <<depthTexture.width, depthTexture.height>> = canvas
  /\ depthTexture.id = texturesCreated
  /\ texturesDestroyed >= 1
  /\ texturesCreated < MaxTextures

----------------------------------------------------------------------------
(* Claims about the instance records, checked under Spec.                  *)

\* offset.x of bar i as written at creation: (i - (barCount - 1) / 2) * 0.12.
CreationOffsetX(i) ==
  RMul(RSub(Num(i), RDiv(Num(barCount - 1), Num(2))), Rat(12, 100))

\* The offsets and the x and z scales of every record are as at creation.
FixedFieldsAsCreated(data) ==
  \A i \in 0..(barCount - 1) :
    /\ data[At(i, 0)] = CreationOffsetX(i)
    /\ data[At(i, 1)] = Num(0)
    /\ data[At(i, 2)] = Num(0)
    /\ data[At(i, 3)] = Rat(8, 100)
    /\ data[At(i, 5)] = Rat(8, 100)

\* C17. After any sequence of refreshes, frames and resize events every
\* instance record has the offset (x, y, z) and the scale.x and scale.z
\* written at creation, in host data and GPU buffer alike; and frames and
\* resize events change no instance data at all.
C17_OnlyScaleYChanges ==
  /\ [](instanceData # <<>> =>
          /\ Len(instanceData) = barCount * InstanceStride
          /\ FixedFieldsAsCreated(instanceData)
          /\ FixedFieldsAsCreated(instanceBuffer))
  /\ [][(VisualizationFrame \/ ViewerFrame \/ ResizeEvent)
          => UNCHANGED <<instanceData, instanceBuffer>>]_vars

\* Two refreshes have rewritten the scale.y of every bar, frames have drawn
\* and the canvas has been resized since the depth texture was created.
C17_Witness ==
  /\ page = "visualization"
  /\ lastPass.drawn
  /\ Cardinality({id \in 1..MaxRefreshes : refresh[id] = "done"}) >= 2
  /\ \A i \in 1..barCount : ScaleY(instanceBuffer)[i] # ScaleY(InitialInstanceData)[i]
  /\ canvas # <<depthTexture.width, depthTexture.height>>

\* The invocations of fetchDataAndUpdate that have returned.
Completed == {id \in 1..MaxRefreshes : refresh[id] = "done"}

\* C20. Refresh results are applied in start order: once invocations have
\* completed, the instance buffer holds the data of the one started last
\* among them, so that an earlier-started, slower refresh never overwrites
\* the data of a later-started one.  (Invocations are numbered in start
\* order.)
C20_AppliedInStartOrder ==
  Completed # {} =>
    \A i \in 1..barCount :
      \A id \in Completed : bufferSrc[i] >= id

----------------------------------------------------------------------------
(* Claims about the frame callbacks, checked under Spec.                   *)

\* How often a call occurs among the steps of a frame, and where first.
Occurrences(steps, call) == Cardinality({n \in DOMAIN steps : steps[n] = call})

FirstAt(steps, call) == CHOOSE n \in DOMAIN steps : steps[n] = call

\* C16. Every frame of either page uploads the combined transform first,
\* then re-provisions the depth texture where its size check found it stale,
\* then records and submits exactly one render pass holding exactly one
\* indexed draw (barCount instances for the bar chart, 1 for the cube), and
\* requests the next frame last.
C16_FrameStepsInOrder ==
  lastPass.drawn =>
    LET steps == lastPass.steps
        reprovisioned == Occurrences(steps, "createDepth") > 0
    IN  /\ Head(steps) = "writeUniform"
        /\ steps[Len(steps)] = "requestAnimationFrame"
        /\ \A call \in {"writeUniform", "beginRenderPass", "drawIndexed", "end",
                        "submit", "requestAnimationFrame"} :
             Occurrences(steps, call) = 1
        /\ FirstAt(steps, "beginRenderPass") < FirstAt(steps, "drawIndexed")
        /\ FirstAt(steps, "drawIndexed") < FirstAt(steps, "end")
        /\ FirstAt(steps, "end") < FirstAt(steps, "submit")
        /\ FirstAt(steps, "submit") < FirstAt(steps, "requestAnimationFrame")
        /\ reprovisioned =>
             /\ page = "viewer"
             /\ Occurrences(steps, "destroyDepth") = 1
             /\ Occurrences(steps, "createDepth") = 1
             /\ FirstAt(steps, "writeUniform") < FirstAt(steps, "destroyDepth")
             /\ FirstAt(steps, "destroyDepth") < FirstAt(steps, "createDepth")
             /\ FirstAt(steps, "createDepth") < FirstAt(steps, "beginRenderPass")
             /\ lastPass.depth = lastPass.target
        /\ (page = "viewer" /\ ~reprovisioned) => lastPass.depth = lastPass.target
        /\ lastPass.instances = (IF page = "visualization" THEN barCount ELSE 1)
        /\ rafPending = 1

\* A cube frame has found its depth texture stale and re-provisioned it
\* between the upload and the render pass.
C16_Witness ==
  /\ page = "viewer"
  /\ lastPass.drawn
  /\ Occurrences(lastPass.steps, "createDepth") = 1
  /\ lastPass.instances = 1
  /\ texturesDestroyed >= 1

\* The render pass a frame of the bar chart would record in this state.
PassNow ==
  [drawn |-> TRUE,
   depth |-> <<depthTexture.width, depthTexture.height>>,
   target |-> canvas,
   instances |-> barCount,
   srcs |-> {bufferSrc[i] : i \in DOMAIN bufferSrc},
   steps |-> VisualizationFrameSteps]

\* C18. Once the bar chart has requested its first frame a frame callback
\* stays pending for ever, whatever the refreshes do; the frame callback is
\* enabled in every such state, whatever fetches are in flight; and under
\* SpecFair a frame showing the current canvas and buffer is always
\* eventually drawn, whether pending fetches settle, fail or never return.
C18_FramesKeepRunning ==
  /\ [][rafPending > 0 => rafPending' > 0]_vars
  /\ []((page = "visualization" /\ phase = "running")
          => (rafPending > 0 /\ ENABLED VisualizationFrame))
  /\ (page = "visualization" /\ phase = "running") ~> (lastPass = PassNow)

\* A frame has drawn the data of one refresh while another refresh, started
\* before it, was still awaiting its fetch.
C18_Witness ==
  /\ page = "visualization"
  /\ lastPass = PassNow
  /\ \E id \in Completed : lastPass.srcs = {id} /\ \E early \in InFlight : early < id

\* C21. Each page has a single render loop: at most one frame callback is
\* pending in every state, exactly one whenever the page is running (that
\* is, between the end of one frame and the start of the next) and none
\* before; and resize events and the steps of a data refresh (the steps of
\* a running page that change started or refresh) leave the pending frame
\* callbacks as they are.
C21_SingleRenderLoop ==
  /\ [](/\ rafPending <= 1
        /\ (phase = "running" => rafPending = 1)
        /\ (phase # "running" => rafPending = 0))
  /\ [][(phase = "running"
           /\ (ResizeEvent \/ started' # started \/ refresh' # refresh))
          => rafPending' = rafPending]_vars
  /\ [][(ViewerFrame \/ VisualizationFrame) => rafPending' = 1]_vars

\* The bar chart has drawn frames, its canvas has been resized and a refresh
\* has completed while another is in flight; one frame callback is pending.
C21_Witness ==
  /\ page = "visualization"
  /\ phase = "running"
  /\ lastPass.drawn
  /\ lastPass.target = canvas
  /\ canvas # <<depthTexture.width, depthTexture.height>>
  /\ Completed # {}
  /\ InFlight # {}
  /\ rafPending = 1

====
